---- MODULE Spec2Model ----
(***************************************************************************)
(* vite-plugin-eslint: the path filter (createFilter / compilePattern /   *)
(* handlePath) and the per-file transform hook of src/index.js.           *)
(*                                                                         *)
(* Strings are sequences of one-character strings. A RegExp object is a   *)
(* record [nodes, global, lastIndex]: its parsed pattern, its g flag and  *)
(* the mutable lastIndex slot that RegExp.prototype.test reads and        *)
(* writes. An error is a record [hasMessage, message].                    *)
(***************************************************************************)
EXTENDS Integers, Sequences, FiniteSets, TLC

(***************************************************************************)
(* Regular expression nodes                                                *)
(***************************************************************************)
Lit(c) == [k |-> "lit", c |-> c, set |-> {}, sub |-> <<>>]
AnyChar == [k |-> "any", c |-> "", set |-> {}, sub |-> <<>>]
NotIn(S) == [k |-> "not", c |-> "", set |-> S, sub |-> <<>>]
Bol == [k |-> "bol", c |-> "", set |-> {}, sub |-> <<>>]
Eol == [k |-> "eol", c |-> "", set |-> {}, sub |-> <<>>]
Star(a) == [k |-> "star", c |-> "", set |-> {}, sub |-> <<a>>]
Opt(a) == [k |-> "opt", c |-> "", set |-> {}, sub |-> <<a>>]
Alt(alts) == [k |-> "alt", c |-> "", set |-> {}, sub |-> alts]

RECURSIVE Lits(_)
Lits(s) == IF s = <<>> THEN <<>> ELSE <<Lit(Head(s))>> \o Lits(Tail(s))

(***************************************************************************)
(* Backtracking matcher. Ends(n, s, i) is the sequence of positions at    *)
(* which node n can stop when started at position i of s (i characters    *)
(* consumed), in the order a backtracking engine tries them; the head is  *)
(* the match the engine reports.                                           *)
(***************************************************************************)
RECURSIVE Ends(_, _, _), SeqEnds(_, _, _), StarEnds(_, _, _), Thread(_, _, _, _), AltEnds(_, _, _), StarThread(_, _, _, _)

Thread(es, rest, s, i) ==
  IF es = <<>> THEN <<>>
  ELSE SeqEnds(rest, s, Head(es)) \o Thread(Tail(es), rest, s, i)

SeqEnds(nodes, s, i) ==
  IF nodes = <<>> THEN <<i>>
  ELSE Thread(Ends(Head(nodes), s, i), Tail(nodes), s, i)

StarThread(es, a, s, i) ==
  IF es = <<>> THEN <<>>
  ELSE (IF Head(es) > i THEN StarEnds(a, s, Head(es)) ELSE <<>>) \o StarThread(Tail(es), a, s, i)

StarEnds(a, s, i) == StarThread(Ends(a, s, i), a, s, i) \o <<i>>

AltEnds(alts, s, i) ==
  IF alts = <<>> THEN <<>>
  ELSE SeqEnds(Head(alts), s, i) \o AltEnds(Tail(alts), s, i)

Ends(n, s, i) ==
  CASE n.k = "lit" -> IF i < Len(s) /\ s[i + 1] = n.c THEN <<i + 1>> ELSE <<>>
    [] n.k = "any" -> IF i < Len(s) THEN <<i + 1>> ELSE <<>>
    [] n.k = "not" -> IF i < Len(s) /\ s[i + 1] \notin n.set THEN <<i + 1>> ELSE <<>>
    [] n.k = "bol" -> IF i = 0 THEN <<i>> ELSE <<>>
    [] n.k = "eol" -> IF i = Len(s) THEN <<i>> ELSE <<>>
    [] n.k = "star" -> StarEnds(n.sub[1], s, i)
    [] n.k = "opt" -> Ends(n.sub[1], s, i) \o <<i>>
    [] n.k = "alt" -> AltEnds(n.sub, s, i)

\* RegExpBuiltinExec: the first start position >= from with a match.
RECURSIVE Exec(_, _, _)
Exec(nodes, s, from) ==
  IF from > Len(s) THEN [found |-> FALSE, end |-> 0]
  ELSE LET es == SeqEnds(nodes, s, from)
       IN IF es # <<>> THEN [found |-> TRUE, end |-> Head(es)]
          ELSE Exec(nodes, s, from + 1)

\* RegExp.prototype.test: a g regex searches from lastIndex and stores the
\* end of the match (0 on failure); any other regex searches from 0.
RegExpTest(re, s) ==
  IF re.global
  THEN LET m == Exec(re.nodes, s, re.lastIndex)
       IN IF m.found THEN [res |-> TRUE, re |-> [re EXCEPT !.lastIndex = m.end]]
          ELSE [res |-> FALSE, re |-> [re EXCEPT !.lastIndex = 0]]
  ELSE [res |-> Exec(re.nodes, s, 0).found, re |-> re]

(***************************************************************************)
(* new RegExp(source): the part of the pattern grammar that compilePattern *)
(* can emit. A backslash makes the next character literal, a dot is any   *)
(* character, [^...] a negated class, ^ and $ assertions, * a greedy      *)
(* repetition of the atom before it; a ] outside a class is a literal.    *)
(***************************************************************************)
RECURSIVE ClassEnd(_, _)
ClassEnd(src, j) ==
  IF j > Len(src) THEN 0 ELSE IF src[j] = "]" THEN j ELSE ClassEnd(src, j + 1)

ClassChars(src, from, to) == {src[x] : x \in from..to}

\* the atom at position j of src and the position after it
AtomAt(src, j) ==
  CASE src[j] = "\\" /\ j < Len(src) -> [node |-> Lit(src[j + 1]), next |-> j + 2]
    [] src[j] = "." -> [node |-> AnyChar, next |-> j + 1]
    [] src[j] = "^" -> [node |-> Bol, next |-> j + 1]
    [] src[j] = "$" -> [node |-> Eol, next |-> j + 1]
    [] src[j] = "[" /\ j < Len(src) /\ src[j + 1] = "^" /\ ClassEnd(src, j + 2) # 0 ->
         [node |-> NotIn(ClassChars(src, j + 2, ClassEnd(src, j + 2) - 1)), next |-> ClassEnd(src, j + 2) + 1]
    [] OTHER -> [node |-> Lit(src[j]), next |-> j + 1]

RECURSIVE ParseFrom(_, _)
ParseFrom(src, j) ==
  IF j > Len(src) THEN <<>>
  ELSE LET a == AtomAt(src, j)
       IN IF a.next <= Len(src) /\ src[a.next] = "*"
          THEN <<Star(a.node)>> \o ParseFrom(src, a.next + 1)
          ELSE <<a.node>> \o ParseFrom(src, a.next)

NewRegExp(src) == [nodes |-> ParseFrom(src, 1), global |-> FALSE, lastIndex |-> 0]

(***************************************************************************)
(* compilePattern                                                          *)
(***************************************************************************)
\* the character class of the first replace: | \ { } ( ) [ ] ^ $ + * ? .
EscapedChars == {"|", "\\", "{", "}", "(", ")", "[", "]", "^", "$", "+", "*", "?", "."}

RECURSIVE EscapeSpecial(_)
EscapeSpecial(s) ==
  IF s = <<>> THEN <<>>
  ELSE (IF Head(s) \in EscapedChars THEN <<"\\", Head(s)>> ELSE <<Head(s)>>) \o EscapeSpecial(Tail(s))

\* .replace(/\*\*/g, '.*'): leftmost non-overlapping pairs of stars
RECURSIVE ReplaceDoubleStar(_)
ReplaceDoubleStar(s) ==
  IF s = <<>> THEN <<>>
  ELSE IF Len(s) >= 2 /\ s[1] = "*" /\ s[2] = "*"
       THEN <<".", "*">> \o ReplaceDoubleStar(SubSeq(s, 3, Len(s)))
       ELSE <<Head(s)>> \o ReplaceDoubleStar(Tail(s))

\* .replace(/\*/g, '[^/]*')
RECURSIVE ReplaceStar(_)
ReplaceStar(s) ==
  IF s = <<>> THEN <<>>
  ELSE (IF Head(s) = "*" THEN <<"[", "^", "/", "]", "*">> ELSE <<Head(s)>>) \o ReplaceStar(Tail(s))

Escaped(pattern) == ReplaceStar(ReplaceDoubleStar(EscapeSpecial(pattern)))

\* a pattern is [isRegExp |-> TRUE, re |-> RegExp] or [isRegExp |-> FALSE, str |-> string]
compilePattern(pattern) ==
  IF pattern.isRegExp THEN pattern.re
  ELSE NewRegExp(<<"^">> \o Escaped(pattern.str) \o <<"$">>)

(***************************************************************************)
(* handlePath and createFilter                                             *)
(***************************************************************************)
RECURSIVE MapCompile(_)
MapCompile(arr) ==
  IF arr = <<>> THEN <<>> ELSE <<compilePattern(Head(arr))>> \o MapCompile(Tail(arr))

\* an option value is [shape |-> "null" | "single" | "array", items |-> patterns]
handlePath(path) ==
  IF path.shape = "null" THEN <<>>
  ELSE LET pathArr == IF path.shape = "array" THEN path.items ELSE <<path.items[1]>>
       IN MapCompile(pathArr)

createFilter(include, exclude) ==
  [compiledInclude |-> handlePath(include), compiledExclude |-> handlePath(exclude)]

\* Array.prototype.some(regex => regex.test(id)): stops at the first hit,
\* the regexes tested so far keep the lastIndex test() left in them
RECURSIVE SomeTest(_, _)
SomeTest(list, id) ==
  IF list = <<>> THEN [res |-> FALSE, list |-> <<>>]
  ELSE LET t == RegExpTest(Head(list), id)
       IN IF t.res THEN [res |-> TRUE, list |-> <<t.re>> \o Tail(list)]
          ELSE LET r == SomeTest(Tail(list), id)
               IN [res |-> r.res, list |-> <<t.re>> \o r.list]

\* filter(id): the result and the closure's regexes after the call
filter(f, id) ==
  LET ex == SomeTest(f.compiledExclude, id)
  IN IF ex.res
     THEN [res |-> FALSE, f |-> [f EXCEPT !.compiledExclude = ex.list]]
     ELSE IF Len(f.compiledInclude) = 0
          THEN [res |-> TRUE, f |-> [f EXCEPT !.compiledExclude = ex.list]]
          ELSE LET inc == SomeTest(f.compiledInclude, id)
               IN [res |-> inc.res,
                   f |-> [compiledInclude |-> inc.list, compiledExclude |-> ex.list]]

(***************************************************************************)
(* Inputs of the filter: paths, string patterns and RegExp objects         *)
(***************************************************************************)
PathSrcAB == <<"s", "r", "c", "/", "a", "/", "b", ".", "j", "s">>
PathSrcB == <<"s", "r", "c", "/", "b", ".", "j", "s">>
PathAppJs == <<"a", "p", "p", ".", "j", "s">>
PathNodeModules == <<"n", "o", "d", "e", "_", "m", "o", "d", "u", "l", "e", "s", "/", "x", "/", "i", "n", "d", "e", "x", ".", "j", "s">>
Paths == {PathSrcAB, PathSrcB, PathAppJs, PathNodeModules}

StrPattern(str) == [isRegExp |-> FALSE, str |-> str, re |-> [nodes |-> <<>>, global |-> FALSE, lastIndex |-> 0]]
RePattern(nodes, g) == [isRegExp |-> TRUE, str |-> <<>>, re |-> [nodes |-> nodes, global |-> g, lastIndex |-> 0]]

GlobSrcDeepJs == StrPattern(<<"s", "r", "c", "/", "*", "*", "/", "*", ".", "j", "s">>)
GlobSrcJs == StrPattern(<<"s", "r", "c", "/", "*", ".", "j", "s">>)
GlobNodeModules == StrPattern(<<"n", "o", "d", "e", "_", "m", "o", "d", "u", "l", "e", "s", "/", "*", "*">>)
LiteralSrcB == StrPattern(PathSrcB)

NodeModulesNodes == Lits(<<"n", "o", "d", "e", "_", "m", "o", "d", "u", "l", "e", "s">>)
VirtualNodes == Lits(<<"v", "i", "r", "t", "u", "a", "l", ":">>)
\* /src\/.*\.(vue|jsx?|tsx?)$/
DefaultIncludeNodes ==
  Lits(<<"s", "r", "c", "/">>) \o <<Star(AnyChar), Lit(".")>>
  \o <<Alt(<<Lits(<<"v", "u", "e">>),
             <<Lit("j"), Lit("s"), Opt(Lit("x"))>>,
             <<Lit("t"), Lit("s"), Opt(Lit("x"))>>>>), Eol>>
\* /\.js$/
DotJsNodes == <<Lit("."), Lit("j"), Lit("s"), Eol>>

Null == [shape |-> "null", items |-> <<>>]
Single(p) == [shape |-> "single", items |-> <<p>>]
Array(ps) == [shape |-> "array", items |-> ps]

\* defaultOptions.include and defaultOptions.exclude
DefaultInclude == Single(RePattern(DefaultIncludeNodes, FALSE))
DefaultExclude == Array(<<RePattern(NodeModulesNodes, FALSE), RePattern(VirtualNodes, FALSE)>>)

IncludeValues ==
  {Null, DefaultInclude, Single(RePattern(DotJsNodes, FALSE)), Single(RePattern(DotJsNodes, TRUE)),
   Single(GlobSrcDeepJs), Single(GlobSrcJs), Single(LiteralSrcB), Array(<<GlobSrcJs, RePattern(DotJsNodes, FALSE)>>), Array(<<>>)}
ExcludeValues ==
  {Null, DefaultExclude, Single(RePattern(NodeModulesNodes, TRUE)), Single(GlobNodeModules),
   Array(<<LiteralSrcB, RePattern(NodeModulesNodes, FALSE)>>), Array(<<>>)}

(***************************************************************************)
(* The plugin: vitePluginEslint(options), configResolved and transform     *)
(***************************************************************************)
\* process.cwd()
Cwd == <<"/", "w">>

\* transform ids: under the working directory, relative, outside of it
IdSrcApp == <<"/", "w", "/", "s", "r", "c", "/", "a", "p", "p", ".", "j", "s">>
IdAppJs == PathAppJs
IdNodeModules == PathNodeModules
IdOutside == <<"/", "v", "/", "s", "r", "c", "/", "b", ".", "j", "s">>
Ids == {IdSrcApp, IdAppJs, IdNodeModules, IdOutside}

RECURSIVE Split(_, _)
\* the segments of a path between slashes, cur being the segment in progress
Split(s, cur) ==
  IF s = <<>> THEN (IF cur = <<>> THEN <<>> ELSE <<cur>>)
  ELSE IF Head(s) = "/"
       THEN (IF cur = <<>> THEN <<>> ELSE <<cur>>) \o Split(Tail(s), <<>>)
       ELSE Split(Tail(s), Append(cur, Head(s)))

RECURSIVE Join(_)
Join(segs) ==
  IF segs = <<>> THEN <<>>
  ELSE IF Len(segs) = 1 THEN segs[1]
       ELSE segs[1] \o <<"/">> \o Join(Tail(segs))

\* path.resolve(base, p)
resolve(base, p) == IF p # <<>> /\ p[1] = "/" THEN p ELSE base \o <<"/">> \o p

RECURSIVE CommonPrefixLen(_, _)
CommonPrefixLen(a, b) ==
  IF a = <<>> \/ b = <<>> \/ Head(a) # Head(b) THEN 0
  ELSE 1 + CommonPrefixLen(Tail(a), Tail(b))

\* path.relative(from, to)
relative(from, to) ==
  LET f == Split(resolve(Cwd, from), <<>>)
      t == Split(resolve(Cwd, to), <<>>)
      n == CommonPrefixLen(f, t)
  IN Join([x \in 1..(Len(f) - n) |-> <<".", ".">>] \o SubSeq(t, n + 1, Len(t)))

Digits == <<"0", "1", "2", "3", "4", "5", "6", "7", "8", "9">>

\* `${n}` for a non-negative integer
RECURSIVE Decimal(_)
Decimal(n) == IF n < 10 THEN <<Digits[n + 1]>> ELSE Decimal(n \div 10) \o <<Digits[(n % 10) + 1]>>

\* String.prototype.includes
Includes(str, sub) == \E x \in 1..(Len(str) - Len(sub) + 1) : SubSeq(str, x, x + Len(sub) - 1) = sub

StartsWith(str, pre) == Len(str) >= Len(pre) /\ SubSeq(str, 1, Len(pre)) = pre

ValidationFailed == <<"E", "S", "L", "i", "n", "t", " ", "v", "a", "l", "i", "d", "a", "t", "i", "o", "n", " ", "f", "a", "i", "l", "e", "d">>
ValidationFailedFor == <<"E", "S", "L", "i", "n", "t", " ", "v", "a", "l", "i", "d", "a", "t", "i", "o", "n", " ", "f", "a", "i", "l", "e", "d", " ", "f", "o", "r", " ">>
PluginErrorPrefix == <<"E", "S", "L", "i", "n", "t", " ", "p", "l", "u", "g", "i", "n", " ", "e", "r", "r", "o", "r", ":", " ">>
ErrorWord == <<" ", "e", "r", "r", "o", "r">>
WarningWord == <<" ", "w", "a", "r", "n", "i", "n", "g">>
AndWord == <<" ", "a", "n", "d", " ">>
ColonSpace == <<":", " ">>

\* values an engine call can throw: Error objects, and a value with no message
Error(message) == [hasMessage |-> TRUE, message |-> message]
ErrBoom == Error(<<"b", "o", "o", "m">>)
ErrNamesMarker == Error(<<"n", "o", " ", "E", "S", "L", "i", "n", "t", " ", "v", "a", "l", "i", "d", "a", "t", "i", "o", "n", " ", "f", "a", "i", "l", "e", "d", "/", "f", "m", "t">>)
NonError == [hasMessage |-> FALSE, message |-> <<>>]
TypeErrorIncludes == Error(<<"C", "a", "n", "n", "o", "t", " ", "r", "e", "a", "d", " ", "p", "r", "o", "p", "e", "r", "t", "i", "e", "s", " ", "o", "f", " ", "u", "n", "d", "e", "f", "i", "n", "e", "d">>)
EngineErrors == {ErrBoom, ErrNamesMarker}
ThrownValues == EngineErrors \cup {NonError}

\* formatter.format(results) returns one of these strings
Report == <<"r", "e", "p", "o", "r", "t">>
Outputs == {<<>>, Report}

\* largest errorCount / warningCount a lint result carries
MaxCount == 2
\* number of transform calls followed in one run
MaxTransforms == 2

ConfigFiles == {<<>>, <<"c", "f", "g", ".", "j", "s">>}
FormatterNames == {"stylish", "custom"}

\* the include / exclude the plugin is created with: the defaults, and
\* include /\.js$/ with exclude []
PluginFilters == {[include |-> DefaultInclude, exclude |-> DefaultExclude],
                  [include |-> Single(RePattern(DotJsNodes, FALSE)), exclude |-> Array(<<>>)]}

\* number of filter calls followed in one run
MaxCalls == 3

VARIABLES
  include, exclude,  \* pluginOptions.include / exclude (createFilter's arguments)
  flt,               \* the closure createFilter returned: its compiled regexes
  ncalls, lastCall, firstRes,  \* the direct filter calls made so far
  opts,              \* pluginOptions: fix, throwOnError, throwOnWarning, formatter, configFile
  eslint,            \* the `let eslint` of the plugin closure
  cfg,               \* the configResolved hook call
  cyc,               \* the transform call in progress or last finished
  disk,              \* ids whose file ESLint.outputFixes has rewritten
  ntrans             \* transform calls started

vars == <<include, exclude, flt, ncalls, lastCall, firstRes, opts, eslint, cfg, cyc, disk, ntrans>>

NoCall == [made |-> FALSE, id |-> <<>>, res |-> FALSE]
NoError == [hasMessage |-> FALSE, message |-> <<>>]
Undefined == [defined |-> FALSE, options |-> [fix |-> FALSE, overrideConfigFile |-> <<>>]]
CfgPending == [pc |-> "pending", trace |-> <<>>, raised |-> NoError]
Idle == [pc |-> "idle", id |-> <<>>, passed |-> FALSE, ignored |-> FALSE, results |-> <<>>,
         trace |-> <<>>, failed |-> FALSE, output |-> <<>>, raised |-> NoError]

(***************************************************************************)
(* transform: the decisions between its awaits                             *)
(***************************************************************************)
\* mutation: the engine is asked whatever the filter said
AfterFilter_AlwaysLint(passed) == "isPathIgnored"

\* after filter(id): return null, or call eslint.isPathIgnored(id)
AfterFilter(passed) == IF ~passed THEN "return" ELSE "isPathIgnored"

\* after isPathIgnored: return null, or call eslint.lintText
AfterIsPathIgnored(isIgnored) == IF isIgnored THEN "return" ELSE "lintText"

\* mutation: the fix write is left out
AfterLintText_NoFix(o, results) == IF Len(results) > 0 THEN "loadFormatter" ELSE "return"

\* after lintText: ESLint.outputFixes when fix is on, else the result block
AfterLintText(o, results) ==
  IF o.fix /\ Len(results) > 0 THEN "outputFixes"
  ELSE IF Len(results) > 0 THEN "loadFormatter" ELSE "return"

\* after outputFixes: the result block
AfterOutputFixes(results) == IF Len(results) > 0 THEN "loadFormatter" ELSE "return"

\* ESLint.outputFixes(results) writes the files of the results that carry output
FixedFiles(id, results) == IF \E x \in 1..Len(results) : results[x].hasOutput THEN {id} ELSE {}

\* the trace of those writes
Written(id, results) == IF FixedFiles(id, results) # {} THEN <<"write">> ELSE <<>>

\* mutation: the output is never printed
Emit_Never(output) == <<>>

\* if (output) console.log(output)
Emit(output) == IF output # <<>> THEN <<"console.log">> ELSE <<>>

hasErrors(result) == result.errorCount > 0
hasWarnings(result) == result.warningCount > 0

\* mutation: warnings never abort
ShouldThrow_ErrorsOnly(result, o) == hasErrors(result) /\ o.throwOnError

\* mutation: the counts are compared with >= 0
ShouldThrow_AnyCount(result, o) ==
  (result.errorCount >= 0 /\ o.throwOnError) \/ (result.warningCount >= 0 /\ o.throwOnWarning)

\* the condition of the throw
ShouldThrow(result, o) ==
  (hasErrors(result) /\ o.throwOnError) \/ (hasWarnings(result) /\ o.throwOnWarning)

\* mutation: the plural s from one on
CountText_PluralFromOne(n, word) == Decimal(n) \o word \o (IF n >= 1 THEN <<"s">> ELSE <<>>)

\* `${n} error${n > 1 ? 's' : ''}`
CountText(n, word) == Decimal(n) \o word \o (IF n > 1 THEN <<"s">> ELSE <<>>)

messageParts(result) ==
  (IF hasErrors(result) THEN <<CountText(result.errorCount, ErrorWord)>> ELSE <<>>)
  \o (IF hasWarnings(result) THEN <<CountText(result.warningCount, WarningWord)>> ELSE <<>>)

RECURSIVE JoinAnd(_)
JoinAnd(parts) ==
  IF parts = <<>> THEN <<>>
  ELSE IF Len(parts) = 1 THEN parts[1]
       ELSE parts[1] \o AndWord \o JoinAnd(Tail(parts))

\* new Error(`ESLint validation failed for ${relativePath}: ${...}`)
ValidationError(id, result) ==
  Error(ValidationFailedFor \o relative(Cwd, id) \o ColonSpace \o JoinAnd(messageParts(result)))

\* the catch block of transform: what it logs and what leaves the hook
Catch(error, o) ==
  IF ~error.hasMessage
  THEN [raise |-> TRUE, raised |-> TypeErrorIncludes, events |-> <<"throw">>]
  ELSE IF ~Includes(error.message, ValidationFailed)
       THEN IF o.throwOnError
            THEN [raise |-> TRUE, raised |-> Error(PluginErrorPrefix \o error.message),
                  events |-> <<"console.error", "throw">>]
            ELSE [raise |-> FALSE, raised |-> NoError, events |-> <<"console.error">>]
       ELSE [raise |-> TRUE, raised |-> error, events |-> <<"throw">>]

\* the cycle after the try block threw `error`
Caught(c, error, o) ==
  LET h == Catch(error, o)
  IN [c EXCEPT !.pc = IF h.raise THEN "raised" ELSE "returned",
               !.raised = h.raised,
               !.trace = c.trace \o h.events]

\* the cycle after a call of the engine failed
EngineFailed(c, error, o) == Caught([c EXCEPT !.failed = TRUE], error, o)

\* the cycle moving on to `step`
Goto(c, step) ==
  IF step = "return" THEN [c EXCEPT !.pc = "returned"]
  ELSE [c EXCEPT !.pc = step, !.trace = c.trace \o <<step>>]

\* results[0] formatted, printed and judged
ResultBlock(c, output, o) ==
  LET result == c.results[1]
      c1 == [c EXCEPT !.output = output, !.trace = c.trace \o <<"format">> \o Emit(output)]
  IN IF ShouldThrow(result, o) THEN Caught(c1, ValidationError(c.id, result), o)
     ELSE [c1 EXCEPT !.pc = "returned"]

\* what the formatter of that name returns for these results
FormatOutputs(name, results) ==
  IF name = "stylish"
  THEN {IF \E x \in 1..Len(results) : results[x].errorCount + results[x].warningCount > 0 THEN Report ELSE <<>>}
  ELSE Outputs

(***************************************************************************)
(* Hooks                                                                   *)
(***************************************************************************)
eslintOptions(o) ==
  [fix |-> o.fix,
   overrideConfigFile |-> IF o.configFile # <<>> THEN resolve(Cwd, o.configFile) ELSE <<>>]

\* configResolved(): new ESLint(eslintOptions) succeeds, or throws and the
\* hook logs and rethrows
ConfigResolved ==
  /\ cfg.pc = "pending"
  /\ \/ /\ eslint' = [defined |-> TRUE, options |-> eslintOptions(opts)]
        /\ cfg' = [cfg EXCEPT !.pc = "resolved"]
     \/ \E error \in EngineErrors :
          /\ cfg' = [pc |-> "failed", trace |-> <<"console.error", "throw">>, raised |-> error]
          /\ UNCHANGED eslint
  /\ UNCHANGED <<include, exclude, flt, ncalls, lastCall, firstRes, opts, cyc, disk, ntrans>>

\* transform(code, id) up to its first await
TransformStart(id) ==
  /\ cfg.pc = "resolved"
  /\ cyc.pc \in {"idle", "returned", "raised"}
  /\ ntrans < MaxTransforms
  /\ LET r == filter(flt, id)
         c == [Idle EXCEPT !.id = id, !.passed = r.res]
     IN /\ flt' = r.f
        /\ cyc' = Goto(c, AfterFilter(r.res))
  /\ ntrans' = ntrans + 1
  /\ UNCHANGED <<include, exclude, ncalls, lastCall, firstRes, opts, eslint, cfg, disk>>

\* eslint.isPathIgnored(id) settles
IsPathIgnoredSettles ==
  /\ cyc.pc = "isPathIgnored"
  /\ \/ \E isIgnored \in BOOLEAN :
          cyc' = Goto([cyc EXCEPT !.ignored = isIgnored], AfterIsPathIgnored(isIgnored))
     \/ \E error \in EngineErrors : cyc' = EngineFailed(cyc, error, opts)
  /\ UNCHANGED <<include, exclude, flt, ncalls, lastCall, firstRes, opts, eslint, cfg, disk, ntrans>>

\* the results lintText can return for one file: fixed output only when the
\* engine was created with fix
LintResults ==
  {<<[errorCount |-> e, warningCount |-> w, hasOutput |-> f]>> :
     e \in 0..MaxCount, w \in 0..MaxCount, f \in {FALSE, eslint.options.fix}}

\* eslint.lintText(code, {filePath: id}) settles
LintTextSettles ==
  /\ cyc.pc = "lintText"
  /\ \/ \E results \in LintResults :
          cyc' = Goto([cyc EXCEPT !.results = results], AfterLintText(opts, results))
     \/ \E error \in EngineErrors : cyc' = EngineFailed(cyc, error, opts)
  /\ UNCHANGED <<include, exclude, flt, ncalls, lastCall, firstRes, opts, eslint, cfg, disk, ntrans>>

\* ESLint.outputFixes(results) settles
OutputFixesSettles ==
  /\ cyc.pc = "outputFixes"
  /\ \/ /\ disk' = disk \cup FixedFiles(cyc.id, cyc.results)
        /\ cyc' = Goto([cyc EXCEPT !.trace = cyc.trace \o Written(cyc.id, cyc.results) \o <<"outputFixes:done">>],
                       AfterOutputFixes(cyc.results))
     \/ \E error \in EngineErrors :
          /\ cyc' = EngineFailed(cyc, error, opts)
          /\ UNCHANGED disk
  /\ UNCHANGED <<include, exclude, flt, ncalls, lastCall, firstRes, opts, eslint, cfg, ntrans>>

\* eslint.loadFormatter(formatter) settles; the rest of the try block runs
\* without another await
LoadFormatterSettles ==
  /\ cyc.pc = "loadFormatter"
  /\ \/ \E output \in FormatOutputs(opts.formatter, cyc.results) :
          cyc' = ResultBlock(cyc, output, opts)
     \/ \E thrown \in ThrownValues :
          cyc' = EngineFailed([cyc EXCEPT !.trace = cyc.trace \o <<"format">>], thrown, opts)
     \/ \E error \in EngineErrors : cyc' = EngineFailed(cyc, error, opts)
  /\ UNCHANGED <<include, exclude, flt, ncalls, lastCall, firstRes, opts, eslint, cfg, disk, ntrans>>

Init ==
  /\ \E pf \in PluginFilters : include = pf.include /\ exclude = pf.exclude
  /\ flt = createFilter(include, exclude)
  /\ ncalls = 0
  /\ lastCall = NoCall
  /\ firstRes = [p \in Paths |-> "none"]
  /\ opts \in [fix : BOOLEAN, throwOnError : BOOLEAN, throwOnWarning : BOOLEAN,
               formatter : FormatterNames, configFile : ConfigFiles]
  /\ eslint = Undefined
  /\ cfg = CfgPending
  /\ cyc = Idle
  /\ disk = {}
  /\ ntrans = 0

Next ==
  \/ ConfigResolved
  \/ \E id \in Ids : TransformStart(id)
  \/ IsPathIgnoredSettles
  \/ LintTextSettles
  \/ OutputFixesSettles
  \/ LoadFormatterSettles

Spec == Init /\ [][Next]_vars

(***************************************************************************)
(* The filter on its own: createFilter(include, exclude), then calls       *)
(***************************************************************************)
FilterInit ==
  /\ include \in IncludeValues
  /\ exclude \in ExcludeValues
  /\ flt = createFilter(include, exclude)
  /\ ncalls = 0
  /\ lastCall = NoCall
  /\ firstRes = [p \in Paths |-> "none"]
  /\ opts = [fix |-> FALSE, throwOnError |-> TRUE, throwOnWarning |-> FALSE,
             formatter |-> "stylish", configFile |-> <<>>]
  /\ eslint = Undefined
  /\ cfg = CfgPending
  /\ cyc = Idle
  /\ disk = {}
  /\ ntrans = 0

\* one call filter(id) on the closure createFilter returned
FilterCall(id) ==
  /\ ncalls < MaxCalls
  /\ LET r == filter(flt, id)
     IN /\ flt' = r.f
        /\ lastCall' = [made |-> TRUE, id |-> id, res |-> r.res]
        /\ firstRes' = IF firstRes[id] = "none"
                       THEN [firstRes EXCEPT ![id] = IF r.res THEN "true" ELSE "false"]
                       ELSE firstRes
  /\ ncalls' = ncalls + 1
  /\ UNCHANGED <<include, exclude, opts, eslint, cfg, cyc, disk, ntrans>>

FilterNext == \E id \in Paths : FilterCall(id)

FilterSpec == FilterInit /\ [][FilterNext]_vars

(***************************************************************************)
(* What a pattern is meant to match: a RegExp matches a path that has a   *)
(* match somewhere in it; a glob string matches a whole path, ** standing *)
(* for any characters and * for any characters other than /.              *)
(***************************************************************************)
RECURSIVE GlobNodes(_)
GlobNodes(str) ==
  IF str = <<>> THEN <<>>
  ELSE IF Len(str) >= 2 /\ str[1] = "*" /\ str[2] = "*"
       THEN <<Star(AnyChar)>> \o GlobNodes(SubSeq(str, 3, Len(str)))
       ELSE IF str[1] = "*"
            THEN <<Star(NotIn({"/"}))>> \o GlobNodes(Tail(str))
            ELSE <<Lit(str[1])>> \o GlobNodes(Tail(str))

GlobMatches(str, P) == Len(P) \in {SeqEnds(GlobNodes(str), P, 0)[x] : x \in 1..Len(SeqEnds(GlobNodes(str), P, 0))}

PatternMatches(p, P) ==
  IF p.isRegExp THEN Exec(p.re.nodes, P, 0).found ELSE GlobMatches(p.str, P)

AnyMatches(value, P) == \E x \in 1..Len(value.items) : PatternMatches(value.items[x], P)

\* C1: a path that matches an exclude pattern is rejected by the filter,
\* whatever the include patterns are.
C1_ExcludePrecedence ==
  (lastCall.made /\ AnyMatches(exclude, lastCall.id)) => lastCall.res = FALSE

\* C2: a string pattern matches as a glob: ** crosses /, a single * does
\* not; src/**/*.js matches src/a/b.js, src/*.js matches src/b.js only.
C2_GlobWildcards ==
  (lastCall.made /\ exclude.shape = "null" /\ include.shape = "single" /\ ~include.items[1].isRegExp)
    => lastCall.res = GlobMatches(include.items[1].str, lastCall.id)

\* C10: every call filter(P) returns what the first call filter(P) returned.
C10_FilterIsPure ==
  lastCall.made => firstRes[lastCall.id] = (IF lastCall.res THEN "true" ELSE "false")

(***************************************************************************)
(* Properties of the transform hook                                        *)
(***************************************************************************)
Finished == cyc.pc \in {"returned", "raised"}
Linted == cyc.results # <<>>
Flagged == Linted /\ (cyc.results[1].errorCount > 0 \/ cyc.results[1].warningCount > 0)
Clean == Linted /\ cyc.results[1].errorCount = 0 /\ cyc.results[1].warningCount = 0
Count(ev) == Cardinality({x \in 1..Len(cyc.trace) : cyc.trace[x] = ev})
Happened(ev) == Count(ev) > 0
\* the position of the first occurrence of an event that happened
Pos(ev) == CHOOSE x \in 1..Len(cyc.trace) : cyc.trace[x] = ev /\ \A y \in 1..(x - 1) : cyc.trace[y] # ev
\* the hook raised an error whose message starts with 'ESLint validation failed for'
LintAbort == cyc.pc = "raised" /\ StartsWith(cyc.raised.message, ValidationFailedFor)

\* C3: a linted file whose cycle had no engine or formatter failure raises a
\* lint-finding abort exactly when (errorCount > 0 and throwOnError) or
\* (warningCount > 0 and throwOnWarning); otherwise transform returns.
C3_AbortDecision ==
  (Finished /\ cyc.passed /\ ~cyc.ignored /\ ~cyc.failed) =>
    LET r == cyc.results[1]
        cond == (r.errorCount > 0 /\ opts.throwOnError) \/ (r.warningCount > 0 /\ opts.throwOnWarning)
    IN /\ LintAbort <=> cond
       /\ ~cond => (cyc.pc = "returned" /\ cyc.raised = NoError)

\* an abort raised for warnings alone, errors being present but tolerated
C3_Witness ==
  /\ LintAbort /\ ~cyc.failed /\ ~opts.throwOnError /\ opts.throwOnWarning
  /\ cyc.results[1].errorCount > 0 /\ cyc.results[1].warningCount > 0

\* C4: a failing engine call (at configResolved or during transform) leaves
\* the hook as a wrapped 'ESLint plugin error: ...' when throwOnError is
\* true, is logged and swallowed when it is false, and is never a
\* lint-finding abort.
C4_ErrorPolicy ==
  /\ cfg.pc = "failed" => (opts.throwOnError /\ StartsWith(cfg.raised.message, PluginErrorPrefix))
  /\ (Finished /\ cyc.failed) =>
       IF opts.throwOnError
       THEN cyc.pc = "raised" /\ StartsWith(cyc.raised.message, PluginErrorPrefix)
       ELSE cyc.pc = "returned" /\ Happened("console.error")
  /\ cyc.failed => ~LintAbort

\* the path of each id relative to the working directory
RelativeToCwd(id) ==
  CASE id = IdSrcApp -> <<"s", "r", "c", "/", "a", "p", "p", ".", "j", "s">>
    [] id = IdAppJs -> <<"a", "p", "p", ".", "j", "s">>
    [] id = IdNodeModules -> PathNodeModules
    [] id = IdOutside -> <<".", ".", "/", "v", "/", "s", "r", "c", "/", "b", ".", "j", "s">>

\* n of a thing: singular for exactly one, plural otherwise
Pluralized(n, word) == IF n = 1 THEN Decimal(n) \o word ELSE Decimal(n) \o word \o <<"s">>

Summary(e, w) ==
  IF e > 0 /\ w > 0 THEN Pluralized(e, ErrorWord) \o AndWord \o Pluralized(w, WarningWord)
  ELSE IF e > 0 THEN Pluralized(e, ErrorWord) ELSE Pluralized(w, WarningWord)

OneError == <<"1", " ", "e", "r", "r", "o", "r">>
TwoErrors == <<"2", " ", "e", "r", "r", "o", "r", "s">>
OneErrorAndTwoWarnings == <<"1", " ", "e", "r", "r", "o", "r", " ", "a", "n", "d", " ", "2", " ", "w", "a", "r", "n", "i", "n", "g", "s">>

\* C5: the message of a lint-finding abort names the file relative to the
\* working directory and lists the non-zero counts, each pluralized by its
\* own count, errors first, joined by ' and '.
C5_AbortMessage ==
  LintAbort =>
    LET e == cyc.results[1].errorCount
        w == cyc.results[1].warningCount
        head == ValidationFailedFor \o RelativeToCwd(cyc.id) \o ColonSpace
    IN /\ cyc.raised.message = head \o Summary(e, w)
       /\ (e = 1 /\ w = 0) => cyc.raised.message = head \o OneError
       /\ (e = 2 /\ w = 0) => cyc.raised.message = head \o TwoErrors
       /\ (e = 1 /\ w = 2) => cyc.raised.message = head \o OneErrorAndTwoWarnings

\* the abort for 1 error and 2 warnings, on a file outside the working directory
C5_Witness ==
  /\ LintAbort /\ cyc.id = IdOutside
  /\ cyc.results[1].errorCount = 1 /\ cyc.results[1].warningCount = 2

\* C6: with fix on, outputFixes has been called and has settled before the
\* formatter is loaded, so a cycle that raises a lint-finding abort for a
\* result with fixed output has already written the file.
C6_FixBeforeAbort ==
  /\ (opts.fix /\ Happened("loadFormatter")) =>
       (Happened("outputFixes:done") /\ Pos("outputFixes") < Pos("outputFixes:done")
        /\ Pos("outputFixes:done") < Pos("loadFormatter"))
  /\ (opts.fix /\ Linted /\ cyc.results[1].hasOutput /\ Happened("loadFormatter")) =>
       (Happened("write") /\ Pos("write") < Pos("loadFormatter") /\ cyc.id \in disk)
  /\ (LintAbort /\ opts.fix /\ cyc.results[1].hasOutput) =>
       (Happened("write") /\ Pos("write") < Pos("throw") /\ cyc.id \in disk)

\* fixes written, errors remain, the cycle aborts
C6_Witness ==
  /\ LintAbort /\ opts.fix /\ opts.throwOnError
  /\ cyc.results[1].hasOutput /\ cyc.results[1].errorCount > 0 /\ cyc.id \in disk

\* C7: a path the filter rejects (node_modules/x/index.js under the default
\* exclude) gets no engine call, no output and no error, and transform
\* returns null; a path the engine ignores gets only the isPathIgnored call.
C7_SkippedFilesDoNothing ==
  /\ (cyc.pc # "idle" /\ ~cyc.passed) =>
       (cyc.trace = <<>> /\ cyc.pc = "returned" /\ cyc.raised = NoError)
  /\ cyc.ignored =>
       (cyc.trace = <<"isPathIgnored">> /\ cyc.pc = "returned" /\ cyc.raised = NoError)
  /\ (cyc.pc # "idle" /\ cyc.id = IdNodeModules /\ exclude = DefaultExclude) =>
       (~cyc.passed /\ cyc.trace = <<>>)

\* node_modules/x/index.js rejected by the default exclude
C7_Witness ==
  /\ cyc.pc = "returned" /\ cyc.id = IdNodeModules /\ exclude = DefaultExclude
  /\ ~cyc.passed /\ ntrans > 0

====
